---------------------------- MODULE Spec2Model ----------------------------
(***************************************************************************)
(* A model of collect-plugins.py: the import pipeline (one producer per    *)
(* plugin source, a pool of extraction workers, two asyncio queues and the *)
(* coordinator import_plugins), the metadata extraction of one plugin      *)
(* (MuninPlugin.initialize) and the ordering of example graphs             *)
(* (MuninPluginExampleGraph._get_sort_key).                                *)
(*                                                                         *)
(* Tasks are asyncio tasks.  A step of a worker runs from one await that   *)
(* suspends it (get on an empty queue, the exit of a child process) to the *)
(* next; a producer takes one put per step, and any task that can continue *)
(* may take the next step.  The event loop switches tasks at suspending    *)
(* awaits only, so its runs are among the runs of the model.               *)
(*                                                                         *)
(* Further parts, each with a specification of its own: the workspace      *)
(* directory of a MuninPluginRepository (initialize, __del__), the path    *)
(* keywords of a plugin (_get_keywords), the walk of a plugin tree         *)
(* (get_plugins), and the whole run of publish_plugins_hugo with the       *)
(* consumer task of the exporter, in the order in which the event loop     *)
(* runs the steps of the tasks (first in, first out).                      *)
(***************************************************************************)
EXTENDS Integers, Sequences, FiniteSets, TLC

\* ------------------------------------------------------------------ bounds
\* plugin files that the trees of the sources of a run hold between them
MaxPlugins == 2
\* largest worker pool (multiprocessing.cpu_count()) tried
MaxWorkers == 2
\* longest path of a plugin directory relative to the plugin root, in lexemes
MaxPathLen == 5
\* longest plugin source text, in tokens
MaxTextLen == 2
\* most calls of initialize on one plugin object
MaxCalls == 3
\* most files of one example-graphs directory
MaxGraphs == 3
\* deepest directory of a plugin tree, counted from the plugin root
MaxDepth == 2
\* most directories of a plugin tree below the plugin root
MaxDirs == 3
\* most files of a plugin tree
MaxFiles == 2
\* most calls of initialize and __del__ on one repository object
MaxRepoCalls == 3

\* Attribute values are sequences of strings; None and the mark of an attribute
\* that has not been assigned (reading it raises AttributeError) are two of them.
None == <<"None">>
Unset == <<"Unset">>
NoException == "none"

\* ------------------------------------------------------- plugin source text
(***************************************************************************)
(* The text of a plugin file is a sequence of tokens.  NL is a line break; *)
(* SH is an interpreter path ending in "/sh", PERL one ending in "/perl";  *)
(* HEAD is "=head1"; FAM is the marker "#%# family=" and CAP the marker    *)
(* "#%# capabilities=" (their value is the rest of the line); CAT is       *)
(* "graph_category db"; X is any other word.                               *)
(***************************************************************************)
Tokens == {"NL", "SH", "PERL", "HEAD", "FAM", "CAP", "CAT", "X"}

SeqsUpTo(S, n) == UNION {[1..k -> S] : k \in 0..n}

Texts == SeqsUpTo(Tokens, MaxTextLen)

Contains(text, tok) == \E i \in 1..Len(text) : text[i] = tok

RECURSIVE SplitAcc(_, _, _)
SplitAcc(text, cur, acc) ==
    IF text = <<>>
    THEN IF cur = <<>> THEN acc ELSE Append(acc, cur)
    ELSE IF Head(text) = "NL"
         THEN SplitAcc(Tail(text), <<>>, Append(acc, cur))
         ELSE SplitAcc(Tail(text), Append(cur, Head(text)), acc)

\* str.splitlines(): no line for an empty text, none after a final line break
splitlines(text) == SplitAcc(text, <<>>, <<>>)

\* the least index of a set of indexes, 0 if there is none
FirstOf(S) == IF S = {} THEN 0 ELSE CHOOSE i \in S : \A j \in S : i <= j

\* the tokens of a line that follow its first occurrence of marker
AfterMarker(line, marker) ==
    LET at == FirstOf({i \in 1..Len(line) : line[i] = marker})
    IN  IF at = 0 THEN <<>> ELSE SubSeq(line, at + 1, Len(line))

\* a line the regex "^.*<marker>\s*(.+)$" matches: something follows the marker
MarkerMatches(line, marker) == AfterMarker(line, marker) # <<>>

_parse_family(plugin_code) ==
    LET lines == splitlines(plugin_code)
        at == FirstOf({i \in 1..Len(lines) : MarkerMatches(lines[i], "FAM")})
    IN  IF at = 0 THEN None ELSE AfterMarker(lines[at], "FAM")

_parse_capabilities(plugin_code) ==
    LET lines == splitlines(plugin_code)
        at == FirstOf({i \in 1..Len(lines) : MarkerMatches(lines[i], "CAP")})
    IN  IF at = 0 THEN None ELSE AfterMarker(lines[at], "CAP")

\* CATEGORY_LINE_BLACKLIST_REGEXES: of the lines the model can write, those that
\* start with a comment sign (both markers start with "#")
CategoryLineBlacklisted(line) == line # <<>> /\ line[1] \in {"FAM", "CAP"}

_parse_categories(plugin_code) ==
    LET lines == splitlines(plugin_code)
    IN  IF \E i \in 1..Len(lines) :
              Contains(lines[i], "CAT") /\ ~CategoryLineBlacklisted(lines[i])
        THEN <<"db">> ELSE <<>>

\* IMPLEMENTATION_LANGUAGE_REGEXES, in the order of the dictionary
LanguageOrder == <<"bash", "ksh", "perl", "php", "python2", "python3", "ruby", "sh", "zsh">>

LanguageRegexSearch(language, line) ==
    \/ language = "perl" /\ Contains(line, "PERL")
    \/ language = "sh" /\ Contains(line, "SH")

\* raises IndexError on a text without any line
ParseLanguageRaises(plugin_code) == splitlines(plugin_code) = <<>>

_parse_implementation_language(plugin_code) ==
    LET first_line == splitlines(plugin_code)[1]
        at == FirstOf({i \in 1..Len(LanguageOrder) :
                          LanguageRegexSearch(LanguageOrder[i], first_line)})
    IN  IF at = 0 THEN None ELSE <<LanguageOrder[at]>>

\* ------------------------------------------------------------- plugin files
(***************************************************************************)
(* What the file system and the external tools hold for one plugin file:   *)
(* its text, whether open() succeeds, what perldoc does when it is run on  *)
(* the file, whether "git log" yields a timestamp, and the directory of    *)
(* the file relative to the plugin root.                                   *)
(*   perldoc = spawn_error : create_subprocess_exec raises OSError         *)
(*             exit_nonzero: the process exits with a non-zero code        *)
(*             undecodable : exit 0, the output is not valid UTF-8         *)
(*             blocked     : the output is larger than the stdout pipe     *)
(*                           takes while nobody reads it                   *)
(*             doc_summary, doc_plain, doc_empty: exit 0 with a text       *)
(***************************************************************************)
PerldocBehaviours ==
    {"spawn_error", "exit_nonzero", "undecodable", "blocked",
     "doc_summary", "doc_plain", "doc_empty"}

GitLogBehaviours == {"timestamp", "failed"}

\* Directories of plugin files, as paths relative to the plugin root.  A path is
\* the sequence of its lexemes: "/" is os.path.sep, "." a dot, and the others
\* stand for themselves; the path of the root itself is empty.
RelativeDirs ==
    {<<>>, <<"node.d">>, <<"node.d", ".", "linux">>, <<"Node.D", "/", "cpu">>}

PluginFiles ==
    [code : Texts, readable : BOOLEAN, perldoc : PerldocBehaviours,
     gitlog : GitLogBehaviours, dir : RelativeDirs]

\* the markdown text perldoc prints, as lines
PerldocOutput(f) ==
    CASE f.perldoc = "doc_summary" -> <<"# NAME", "cpu - Munin plugin to monitor CPU.">>
      [] f.perldoc = "doc_plain"   -> <<"# NAME", "some text">>
      [] OTHER                     -> <<>>

\* HEADING_REGEX with _rewrite_match_capitalization, then one more heading level
RewriteHeading(line) == IF line = "# NAME" THEN "## Name" ELSE line

PostProcessDocumentation(lines) == [i \in 1..Len(lines) |-> RewriteHeading(lines[i])]

\* SUMMARY_REGEX on one line of the documentation: the summary, or None
SummaryOfLine(line) ==
    IF line = "cpu - Munin plugin to monitor CPU." THEN <<"monitor CPU">> ELSE None

\* the lines of the documentation that _guess_summary looks at
SummaryLines == 8

Falsy(value) == value \in {None, <<>>}

_guess_summary(documentation) ==
    IF Falsy(documentation) THEN None
    ELSE LET lines == SubSeq(documentation, 1,
                             IF Len(documentation) < SummaryLines
                             THEN Len(documentation) ELSE SummaryLines)
             at == FirstOf({i \in 1..Len(lines) : SummaryOfLine(lines[i]) # None})
         IN  IF at = 0 THEN None ELSE SummaryOfLine(lines[at])

\* the lexemes paths are written with
PathLexemes == {"/", ".", "node.d", "Node.D", "linux", "cpu"}

\* the name of the plugin file in a directory of the model
PluginBasename == <<"cpu">>

\* os.path.join(dirpath, filename), relative to the plugin root
join(dirpath, filename) ==
    IF dirpath = <<>> THEN filename ELSE dirpath \o <<"/">> \o filename

\* os.path.dirname: what stands before the last separator
dirname(path) ==
    LET seps == {i \in 1..Len(path) : path[i] = "/"}
    IN  IF seps = {} THEN <<>>
        ELSE SubSeq(path, 1, (CHOOSE i \in seps : \A j \in seps : j <= i) - 1)

\* MuninPluginRepository.get_relative_path: pathlib writes the root itself "."
get_relative_path(path) == IF path = <<>> THEN <<".">> ELSE path

\* str.lower()
Lower(path) == [i \in 1..Len(path) |-> IF path[i] = "Node.D" THEN "node.d" ELSE path[i]]

\* the position of the k-th separator of a path; 0 before the first, one past
\* the end after the last
SplitPath(path, k) ==
    LET seps == {i \in 1..Len(path) : path[i] = "/"}
    IN  IF k = 0 THEN 0
        ELSE IF k > Cardinality(seps) THEN Len(path) + 1
        ELSE CHOOSE i \in seps : Cardinality({j \in seps : j < i}) = k - 1

\* str.split(os.path.sep): what stands between the separators
split(path) ==
    [k \in 1..(Cardinality({i \in 1..Len(path) : path[i] = "/"}) + 1) |->
        SubSeq(path, SplitPath(path, k - 1) + 1, SplitPath(path, k) - 1)]

\* KEYWORDS_REMOVAL_REGEXES[0]: a leading "node.d." is removed
RemoveNodeDPrefix(token) ==
    IF Len(token) >= 2 /\ token[1] = "node.d" /\ token[2] = "."
    THEN SubSeq(token, 3, Len(token)) ELSE token

\* KEYWORDS_REMOVAL_REGEXES[1]: a token that is "node.d" becomes empty
RemoveBareNodeD_keeping(token) == token

RemoveBareNodeD(token) == IF token = <<"node.d">> THEN <<>> ELSE token

\* "if token: yield token"
NonEmptyToken(token) == token # <<>>

KeepNonEmpty(tokens) == SelectSeq(tokens, NonEmptyToken)

\* _get_keywords of the plugin whose file is plugin_filename (relative to the
\* plugin root): the tokens of relative_path.lower().split(os.path.sep), each
\* put through the two regexes in turn, that are not empty
_get_keywords(has_repository, plugin_filename) ==
    LET relative_path == IF has_repository
                         THEN get_relative_path(dirname(plugin_filename))
                         ELSE <<>>
        tokens == split(Lower(relative_path))
    IN  KeepNonEmpty([i \in 1..Len(tokens) |->
                         RemoveBareNodeD(RemoveNodeDPrefix(tokens[i]))])

\* tuple(...) of the tokens, written as an attribute value: the lexemes of the
\* tokens with "," between one token and the next
RECURSIVE tuple(_)
tuple(tokens) ==
    IF tokens = <<>> THEN <<>>
    ELSE IF Len(tokens) = 1 THEN tokens[1]
    ELSE tokens[1] \o <<",">> \o tuple(Tail(tokens))

\* tuple(self._get_keywords()) of a plugin file in each directory of the model
path_keywords ==
    [has_repository \in BOOLEAN, dir \in RelativeDirs |->
        tuple(_get_keywords(has_repository, join(dir, PluginBasename)))]

\* ---------------------------------------------------------- MuninPlugin
\* MuninPlugin.__init__: the object discovery creates; nothing is derived yet
MuninPlugin(plugin_filename, repository_source, language) ==
    [plugin_filename |-> plugin_filename,
     repository_source |-> repository_source,
     implementation_language |-> language,
     is_initialized |-> FALSE,
     plugin_code |-> Unset, documentation |-> Unset, family |-> Unset,
     capabilities |-> Unset, categories |-> Unset, changed_timestamp |-> Unset,
     path_keywords |-> Unset, summary |-> Unset]

\* the attributes initialize derives
DerivedAttributes(p) ==
    <<p.plugin_code, p.documentation, p.family, p.capabilities, p.categories,
      p.changed_timestamp, p.path_keywords, p.summary, p.implementation_language>>

AllDerivedAssigned(p) ==
    \A i \in 1..Len(DerivedAttributes(p)) : DerivedAttributes(p)[i] # Unset

\* "if not self._is_initialized": initialize does its work
InitializeGuard_ignoring_flag(p) == TRUE

InitializeGuard(p) == ~p.is_initialized

\* open(...).read().decode(errors="ignore")
ReadPluginCode(p, f) == [p EXCEPT !.plugin_code = f.code]

\* _parse_documentation scans the text before it starts perldoc
NeedsPerldoc_always(p) == TRUE

NeedsPerldoc(p) == Contains(p.plugin_code, "HEAD")

\* _parse_documentation once perldoc has been started or could not be:
\* the exception it raises and the text it returns
PerldocResult(f) ==
    CASE f.perldoc \in {"spawn_error", "exit_nonzero"} ->
             [exc |-> NoException, documentation |-> None]
      [] f.perldoc = "undecodable" ->
             [exc |-> "UnicodeDecodeError", documentation |-> None]
      [] OTHER ->
             [exc |-> NoException,
              documentation |-> PostProcessDocumentation(PerldocOutput(f))]

\* process.wait() returns: perldoc could write all its output and exit
PerldocExits(f) == f.perldoc # "blocked"

\* the assignments of initialize from the documentation to the categories
SetParsed(p, documentation) ==
    [p EXCEPT !.documentation = documentation,
              !.family = _parse_family(p.plugin_code),
              !.capabilities = _parse_capabilities(p.plugin_code),
              !.categories = _parse_categories(p.plugin_code)]

HasRepository(p) == p.repository_source # None

\* MuninPluginRepository.get_file_timestamp of a git source
get_file_timestamp(f) == IF f.gitlog = "timestamp" THEN <<"2020-01-01">> ELSE None

\* the rest of initialize, from the timestamp on: the exception it raises and
\* the plugin it leaves
FinishInitialize(p, f, timestamp) ==
    LET q == [p EXCEPT !.changed_timestamp = timestamp,
                       !.path_keywords = path_keywords[HasRepository(p), f.dir],
                       !.summary = _guess_summary(p.documentation)]
    IN  IF q.implementation_language # None
        THEN [exc |-> NoException, plugin |-> [q EXCEPT !.is_initialized = TRUE]]
        ELSE IF ParseLanguageRaises(q.plugin_code)
             THEN [exc |-> "IndexError", plugin |-> q]
             ELSE [exc |-> NoException,
                   plugin |-> [q EXCEPT
                       !.implementation_language =
                           _parse_implementation_language(q.plugin_code),
                       !.is_initialized = TRUE]]

\* One whole call of initialize on plugin p whose file is f: the plugin it leaves,
\* the exception it raises, whether the call returns at all, and the files it
\* opened and the perldoc and git processes it started.
initialize(p, f) ==
    IF ~InitializeGuard(p)
    THEN [plugin |-> p, exc |-> NoException, returns |-> TRUE,
          reads |-> 0, perldocs |-> 0, gitlogs |-> 0]
    ELSE IF ~f.readable
    THEN [plugin |-> p, exc |-> "OSError", returns |-> TRUE,
          reads |-> 0, perldocs |-> 0, gitlogs |-> 0]
    ELSE
    LET p1 == ReadPluginCode(p, f)
        runs == NeedsPerldoc(p1)
        started == IF runs /\ f.perldoc # "spawn_error" THEN 1 ELSE 0
        doc == IF runs THEN PerldocResult(f)
               ELSE [exc |-> NoException, documentation |-> None]
        gitlogs == IF HasRepository(p) THEN 1 ELSE 0
    IN  IF runs /\ ~PerldocExits(f)
        THEN [plugin |-> p1, exc |-> NoException, returns |-> FALSE,
              reads |-> 1, perldocs |-> 1, gitlogs |-> 0]
        ELSE IF doc.exc # NoException
        THEN [plugin |-> p1, exc |-> doc.exc, returns |-> TRUE,
              reads |-> 1, perldocs |-> started, gitlogs |-> 0]
        ELSE
        LET p2 == SetParsed(p1, doc.documentation)
            timestamp == IF HasRepository(p) THEN get_file_timestamp(f) ELSE None
            fin == FinishInitialize(p2, f, timestamp)
        IN  [plugin |-> fin.plugin, exc |-> fin.exc, returns |-> TRUE,
             reads |-> 1, perldocs |-> started, gitlogs |-> gitlogs]

\* ------------------------------------------------ MuninPluginExampleGraph
(***************************************************************************)
(* A key is a string, written as the sequence of its characters.           *)
(***************************************************************************)
\* the characters of the model's keys, in the order of their code points
CharTable ==
    <<"0", "1", "2", "a", "b", "c", "d", "e", "h", "k", "m", "n", "o", "r", "t",
      "w", "y">>

Ord(c) == CHOOSE i \in 1..Len(CharTable) : CharTable[i] = c

Digits == {"0", "1", "2"}

DigitValue(c) == Ord(c) - 1

KeyDay == <<"d", "a", "y">>
KeyWeek == <<"w", "e", "e", "k">>
KeyMonth == <<"m", "o", "n", "t", "h">>
KeyYear == <<"y", "e", "a", "r">>
KeyWeeky == <<"w", "e", "e", "k", "y">>

PeriodKeys == {KeyDay, KeyWeek, KeyMonth, KeyYear}

NumericKeys == {<<"0">>, <<"1">>, <<"2">>, <<"1", "0">>, <<"1", "0", "0">>, <<"1", "0", "1">>}

\* the keys the model compares
GraphKeys == PeriodKeys \cup NumericKeys \cup {KeyWeeky, <<"a", "b", "c">>}

\* int(key) raises ValueError unless the key is a numeral
IsNumeral(key) == key # <<>> /\ \A i \in 1..Len(key) : key[i] \in Digits

RECURSIVE IntOf(_)
IntOf(key) ==
    IF key = <<>> THEN 0
    ELSE 10 * IntOf(SubSeq(key, 1, Len(key) - 1)) + DigitValue(key[Len(key)])

\* the comparison of two str values: by code points, a prefix first
RECURSIVE StrLess(_, _)
StrLess(a, b) ==
    IF b = <<>> THEN FALSE
    ELSE IF a = <<>> THEN TRUE
    ELSE IF Head(a) # Head(b) THEN Ord(Head(a)) < Ord(Head(b))
    ELSE StrLess(Tail(a), Tail(b))

\* the dictionary of _get_sort_key: the weight of a special key, 0 if it has none
SpecialWeight(key) ==
    CASE key = KeyDay   -> -4
      [] key = KeyWeeky -> -3
      [] key = KeyMonth -> -2
      [] key = KeyYear  -> -1
      [] OTHER          -> 0

\* the weight given to every key that is neither special nor a numeral
OtherWeight == 100

\* _get_sort_key: a pair of a weight and a string (the keys of the model are
\* in lower case, which key.lower() leaves as they are)
_get_sort_key(key) ==
    IF SpecialWeight(key) # 0 THEN <<SpecialWeight(key), <<>>>>
    ELSE IF IsNumeral(key) THEN <<IntOf(key), <<>>>>
    ELSE <<OtherWeight, key>>

\* the comparison of two such pairs, as Python compares tuples
TupleLess(s, t) == s[1] < t[1] \/ (s[1] = t[1] /\ StrLess(s[2], t[2]))

\* MuninPluginExampleGraph.__lt__
GraphLess(a, b) == TupleLess(_get_sort_key(a), _get_sort_key(b))

\* list.sort(): stable, by __lt__ alone (x goes before the first element it is
\* less than)
InsertSorted(sorted, x) ==
    LET at == FirstOf({i \in 1..Len(sorted) : GraphLess(x, sorted[i])})
    IN  IF at = 0 THEN Append(sorted, x)
        ELSE SubSeq(sorted, 1, at - 1) \o <<x>> \o SubSeq(sorted, at, Len(sorted))

RECURSIVE SortGraphs(_)
SortGraphs(keys) ==
    IF keys = <<>> THEN <<>>
    ELSE InsertSorted(SortGraphs(SubSeq(keys, 1, Len(keys) - 1)), keys[Len(keys)])

\* EXAMPLE_GRAPH_SUFFIX_REGEX: the keys of the files that _find_images keeps
MatchesGraphSuffix(key) == key \in PeriodKeys \/ IsNumeral(key)

RECURSIVE KeepMatching(_)
KeepMatching(keys) ==
    IF keys = <<>> THEN <<>>
    ELSE IF MatchesGraphSuffix(Head(keys))
         THEN <<Head(keys)>> \o KeepMatching(Tail(keys))
         ELSE KeepMatching(Tail(keys))

\* MuninPlugin._find_images on a directory listing, given as the keys of its
\* files in the order os.listdir returns them
_find_images(listing) == SortGraphs(KeepMatching(listing))

\* ------------------------------------------------------------------ state
VARIABLES
    \* -- the import pipeline (import_plugins)
    cpu_count,            \* multiprocessing.cpu_count(): the size of the worker pool
    clone_ok,             \* per source: whether its acquisition succeeds
    tree,                 \* per source: the candidate files of its plugin tree, in walk order
    cpc,                  \* where import_plugins is: idle, sourcing, draining, done
    ppc,                  \* per source: where its producer task is
    walked,               \* per source: how many candidates its producer has enqueued
    source_errors,        \* the sources whose producer caught and logged an error
    task_errors,          \* the sources whose producer task ended with an exception
    caller_exc,           \* the exception raised to the caller of import_plugins
    plugins,              \* the MuninPlugin object of every candidate
    pending_plugins,      \* the pending queue: plugins waiting for extraction
    unfinished_tasks,     \* the pending queue's count of items not yet task_done
    producers_waiting,    \* the producers suspended in put on a full pending queue
    initialized_plugins,  \* the results queue
    wpc,                  \* per worker: where its task is
    wcur,                 \* per worker: the local variable "plugin"
    worker_errors,        \* the plugins whose initialize raised, as the workers logged them
    dequeued,             \* the plugins the workers got from the pending queue, in order
    acked,                \* per plugin: the number of task_done calls made for it
    \* -- one plugin object and the calls of initialize on it
    xfile,                \* the file of the plugin
    xplugin,              \* the MuninPlugin object
    xcalls,               \* the number of calls of initialize made
    xexc,                 \* the exception the last call raised
    xreturned,            \* whether the last call returned (or raised)
    xbefore,              \* the object as it was before the last call
    file_reads,           \* the number of times the file was opened
    perldoc_runs,         \* the number of perldoc processes started
    gitlog_runs,          \* the number of "git log" processes started
    \* -- the example graphs of one plugin
    graph_listing,        \* os.listdir of the example-graphs directory, as keys
    example_graphs,       \* MuninPlugin.example_graphs
    images_found,         \* whether _find_images has run
    compared              \* the last pair of keys compared with __lt__, and the result

pipeline_vars ==
    <<cpu_count, clone_ok, tree, cpc, ppc, walked, source_errors, task_errors, caller_exc, plugins,
      pending_plugins, unfinished_tasks, producers_waiting, initialized_plugins,
      wpc, wcur, worker_errors, dequeued, acked>>

extract_vars ==
    <<xfile, xplugin, xcalls, xexc, xreturned, xbefore, file_reads, perldoc_runs,
      gitlog_runs>>

graph_vars == <<graph_listing, example_graphs, images_found, compared>>

VARIABLES
    \* -- the MuninPluginRepository objects and their workspace directories
    is_downloaded,        \* per repository: _is_downloaded
    extract_directory,    \* per repository: _extract_directory
    plugins_directory,    \* per repository: _plugins_directory
    mkdtemp_count,        \* per repository: the number of directories mkdtemp made for it
    disk,                 \* the workspace directories that exist
    rmtree_log,           \* the directories shutil.rmtree was called on, in order
    last_call,            \* per repository: the last method called on it
    repo_exc,             \* per repository: the exception its last call raised
    repo_calls            \* per repository: the number of calls made on it

repo_vars ==
    <<is_downloaded, extract_directory, plugins_directory, mkdtemp_count, disk,
      rmtree_log, last_call, repo_exc, repo_calls>>

VARIABLES
    \* -- the path keywords of one plugin
    kdirpath,             \* the directory of the plugin file, relative to the plugin root
    khas_repository,      \* whether the plugin has a repository_source
    kkeywords,            \* tuple(self._get_keywords())
    kdone                 \* whether _get_keywords has run

keyword_vars == <<kdirpath, khas_repository, kkeywords, kdone>>

VARIABLES
    \* -- get_plugins walking the plugin tree of one repository
    dtree,                \* the directories of the tree, as paths from the plugin root
    dwalk,                \* the directories os.walk has still to yield, next first
    dpc,                  \* where get_plugins is: walk, files, done
    ddirpath,             \* dirpath of the current turn of the outer loop
    dfilenames,           \* the files of the inner loop still to visit
    status,               \* the local variable "status"
    dvisited,             \* the files the inner loop has visited, with their directory
    candidates,           \* the plugins yielded, in order
    dexc                  \* the exception raised out of get_plugins

discovery_vars ==
    <<dtree, dwalk, dpc, ddirpath, dfilenames, status, dvisited, candidates, dexc>>

VARIABLES
    \* -- publish_plugins_hugo: the tasks of the run on the event loop
    ready,                \* the callbacks the loop is to run, next first
    main_pc,              \* where the task of publish_plugins_hugo is
    producer_pc,          \* per source: where its producer task is
    nfinished,            \* gather: the number of producer tasks known to be done
    jobs,                 \* the pending queue of import_plugins
    jobs_unfinished,      \* its _unfinished_tasks
    jobs_getters,         \* its _getters: the workers waiting in jobs.get()
    worker_pc,            \* per worker: where its task is
    worker_plugin,        \* per worker: its local variable "plugin"
    loaded_plugins,       \* the results queue
    loaded_unfinished,    \* its _unfinished_tasks
    exporter_pc,          \* where the consumer task ("worker") is
    must_cancel,          \* whether the consumer task has a cancellation to take
    new_plugin,           \* the consumer's local variable "new_plugin"
    exporter_plugins,     \* export._plugins
    forwarded,            \* the plugins put on the results queue, in order
    handed                \* the plugins export.add was called with, in order

publish_vars ==
    <<ready, main_pc, producer_pc, nfinished, jobs, jobs_unfinished, jobs_getters,
      worker_pc, worker_plugin, loaded_plugins, loaded_unfinished, exporter_pc,
      must_cancel, new_plugin, exporter_plugins, forwarded, handed>>

\* the variables of the parts of the program modelled after the pipeline
rest_vars == <<repo_vars, keyword_vars, discovery_vars, publish_vars>>

\* what the steps on the repository objects leave alone
outside_repo ==
    <<pipeline_vars, extract_vars, graph_vars, keyword_vars, discovery_vars, publish_vars>>

\* what the derivation of the keywords leaves alone
outside_keyword ==
    <<pipeline_vars, extract_vars, graph_vars, repo_vars, discovery_vars, publish_vars>>

\* what a step of get_plugins leaves alone
outside_discovery ==
    <<pipeline_vars, extract_vars, graph_vars, repo_vars, keyword_vars, publish_vars>>

\* what a step of the publishing run leaves alone: the pool size, the outcomes
\* of the acquisitions and the trees are its inputs
outside_publish ==
    <<pipeline_vars, extract_vars, graph_vars, keyword_vars, discovery_vars>>

vars == <<pipeline_vars, extract_vars, graph_vars, rest_vars>>

\* PLUGIN_SOURCES has three entries
NumSources == 3

Sources == 1..NumSources
Workers == 1..MaxWorkers
PluginIds == Sources \X (1..MaxPlugins)
NoPlugin == <<0, 0>>

\* ------------------------------------- initialize, called on one plugin object
\* the pipeline before import_plugins is called
PipelineIdle ==
    /\ cpu_count = 1
    /\ clone_ok = [s \in Sources |-> FALSE]
    /\ tree = [s \in Sources |-> <<>>]
    /\ cpc = "idle"
    /\ ppc = [s \in Sources |-> "new"]
    /\ walked = [s \in Sources |-> 0]
    /\ source_errors = {}
    /\ task_errors = {}
    /\ caller_exc = NoException
    /\ plugins = <<>>
    /\ pending_plugins = <<>>
    /\ unfinished_tasks = 0
    /\ producers_waiting = {}
    /\ initialized_plugins = <<>>
    /\ wpc = [w \in Workers |-> "new"]
    /\ wcur = [w \in Workers |-> NoPlugin]
    /\ worker_errors = {}
    /\ dequeued = <<>>
    /\ acked = <<>>

\* no plugin object under test
ExtractIdle ==
    /\ xfile = [code |-> <<>>, readable |-> FALSE, perldoc |-> "spawn_error",
                gitlog |-> "failed", dir |-> <<>>]
    /\ xplugin = MuninPlugin(<<"file">>, None, None)
    /\ xcalls = 0
    /\ xexc = NoException
    /\ xreturned = TRUE
    /\ xbefore = xplugin
    /\ file_reads = 0
    /\ perldoc_runs = 0
    /\ gitlog_runs = 0

\* no example-graphs directory under test
GraphIdle ==
    /\ graph_listing = <<>>
    /\ example_graphs = <<>>
    /\ images_found = FALSE
    /\ compared = <<>>

\* an attribute of a repository that is not assigned (or was deleted)
NoDirectory == <<0, 0>>

\* MuninPluginRepository.__init__ for every source: nothing on disk yet
RepoIdle ==
    /\ is_downloaded = [s \in Sources |-> FALSE]
    /\ extract_directory = [s \in Sources |-> NoDirectory]
    /\ plugins_directory = [s \in Sources |-> NoDirectory]
    /\ mkdtemp_count = [s \in Sources |-> 0]
    /\ disk = {}
    /\ rmtree_log = <<>>
    /\ last_call = [s \in Sources |-> "__init__"]
    /\ repo_exc = [s \in Sources |-> NoException]
    /\ repo_calls = [s \in Sources |-> 0]

\* no plugin whose keywords are derived
KeywordIdle ==
    /\ kdirpath = <<>>
    /\ khas_repository = FALSE
    /\ kkeywords = <<>>
    /\ kdone = FALSE

\* the local variable "status" before its first assignment
Unbound == "unbound"

\* no plugin tree is walked
DiscoveryIdle ==
    /\ dtree = {}
    /\ dwalk = <<>>
    /\ dpc = "done"
    /\ ddirpath = <<>>
    /\ dfilenames = <<>>
    /\ status = Unbound
    /\ dvisited = <<>>
    /\ candidates = <<>>
    /\ dexc = NoException

\* publish_plugins_hugo has not been called: no task, no queue, no exporter
PublishIdle ==
    /\ ready = <<>>
    /\ main_pc = "start"
    /\ producer_pc = [s \in Sources |-> "new"]
    /\ nfinished = 0
    /\ jobs = <<>>
    /\ jobs_unfinished = 0
    /\ jobs_getters = <<>>
    /\ worker_pc = [w \in Workers |-> "new"]
    /\ worker_plugin = [w \in Workers |-> NoPlugin]
    /\ loaded_plugins = <<>>
    /\ loaded_unfinished = 0
    /\ exporter_pc = "new"
    /\ must_cancel = FALSE
    /\ new_plugin = NoPlugin
    /\ exporter_plugins = <<>>
    /\ forwarded = <<>>
    /\ handed = <<>>

\* nothing under test in the parts modelled after the pipeline
RestIdle == RepoIdle /\ KeywordIdle /\ DiscoveryIdle /\ PublishIdle

\* A plugin object as discovery (with a repository, and with the language of a
\* ".c" file or none) or import_local_plugins (without repository) creates it,
\* for every file of the model.
ExtractInit ==
    /\ xfile \in PluginFiles
    /\ \E repository \in {None, <<"munin">>}, language \in {None, <<"c">>} :
           xplugin = MuninPlugin(<<"file">>, repository, language)
    /\ xcalls = 0
    /\ xexc = NoException
    /\ xreturned = TRUE
    /\ xbefore = xplugin
    /\ file_reads = 0
    /\ perldoc_runs = 0
    /\ gitlog_runs = 0
    /\ PipelineIdle
    /\ GraphIdle
    /\ RestIdle

\* "await plugin.initialize()", the whole call
CallInitialize ==
    /\ xreturned
    /\ xcalls < MaxCalls
    /\ LET r == initialize(xplugin, xfile)
       IN  /\ xplugin' = r.plugin
           /\ xexc' = r.exc
           /\ xreturned' = r.returns
           /\ file_reads' = file_reads + r.reads
           /\ perldoc_runs' = perldoc_runs + r.perldocs
           /\ gitlog_runs' = gitlog_runs + r.gitlogs
    /\ xbefore' = xplugin
    /\ xcalls' = xcalls + 1
    /\ UNCHANGED <<xfile, pipeline_vars, graph_vars, rest_vars>>

ExtractNext == CallInitialize

ExtractSpec == ExtractInit /\ [][ExtractNext]_vars

\* --------------------------------------- the example graphs of one plugin
DistinctSeqs(S, n) ==
    {q \in SeqsUpTo(S, n) : \A i, j \in 1..Len(q) : i # j => q[i] # q[j]}

\* an example-graphs directory with the files of one plugin, in any order
GraphInit ==
    /\ graph_listing \in DistinctSeqs(GraphKeys, MaxGraphs)
    /\ example_graphs = <<>>
    /\ images_found = FALSE
    /\ compared = <<>>
    /\ PipelineIdle
    /\ ExtractIdle
    /\ RestIdle

\* MuninPlugin.__init__: self.example_graphs = self._find_images()
FindImages ==
    /\ ~images_found
    /\ example_graphs' = _find_images(graph_listing)
    /\ images_found' = TRUE
    /\ UNCHANGED <<graph_listing, compared, pipeline_vars, extract_vars, rest_vars>>

\* a < b on the example graphs of two files of the directory
CompareGraphs ==
    /\ \E i, j \in 1..Len(graph_listing) :
           compared' = <<graph_listing[i], graph_listing[j],
                         GraphLess(graph_listing[i], graph_listing[j])>>
    /\ UNCHANGED <<graph_listing, example_graphs, images_found, pipeline_vars,
                   extract_vars, rest_vars>>

GraphNext == FindImages \/ CompareGraphs

GraphSpec == GraphInit /\ [][GraphNext]_vars

\* ------------------------------------------------------- import_plugins
\* PLUGIN_SOURCES: the names of the configured sources
SourceNames == <<"munin", "munin-2.0", "munin-contrib">>

SourceName(s) == IF s <= Len(SourceNames) THEN SourceNames[s] ELSE "another"

\* kinds of plugin file: one without documentation, one with, an empty one, and
\* one whose documentation is more than perldoc can write to its pipe
FilePlain ==
    [code |-> <<"SH">>, readable |-> TRUE, perldoc |-> "doc_plain",
     gitlog |-> "timestamp", dir |-> <<"node.d">>]
FileDocumented ==
    [code |-> <<"PERL", "HEAD">>, readable |-> TRUE, perldoc |-> "doc_summary",
     gitlog |-> "timestamp", dir |-> <<"node.d", ".", "linux">>]
FileEmpty ==
    [code |-> <<>>, readable |-> TRUE, perldoc |-> "doc_plain",
     gitlog |-> "timestamp", dir |-> <<"node.d">>]
FileHugeDocumentation ==
    [code |-> <<"PERL", "HEAD">>, readable |-> TRUE, perldoc |-> "blocked",
     gitlog |-> "timestamp", dir |-> <<"node.d">>]

\* the kinds of file the trees of a run are made of
PipelineFiles == {FilePlain, FileDocumented, FileEmpty, FileHugeDocumentation}

FileOf(id) == tree[id[1]][id[2]]

\* asyncio.Queue() is created without maxsize
PendingMaxsize == 0

\* asyncio.Queue.full()
QueueFull_at_one(queue, maxsize) == Len(queue) >= 1

QueueFull(queue, maxsize) == maxsize > 0 /\ Len(queue) >= maxsize

\* asyncio.Queue.join() returns once every item put has been task_done
JoinReturns_when_empty(queue, unfinished) == queue = <<>>

JoinReturns(queue, unfinished) == unfinished = 0

\* what a failed acquisition raises (an IOError)
AcquisitionError == "MuninPluginRepositoryProcessingError"

\* "except Exception" of import_plugin_source_archive
ProducerCatches(exc) == exc # "CancelledError"

\* gather(..., return_exceptions=True) hands the exceptions of the tasks back as
\* results: none is raised to import_plugins
GatherRaises(errors) == NoException

\* get_plugins: a producer whose acquisition failed leaves its loop
AfterAcquire_ignoring_failure(ok) == "walk"

AfterAcquire(ok) == IF ok THEN "walk" ELSE "done"

\* each worker task holds its plugin in a local variable of its own
PluginSlot_shared(w) == 1

PluginSlot(w) == w

\* the "else" of the worker's try: the plugin is forwarded if nothing was raised
WorkerForwards_always(exc) == TRUE

WorkerForwards(exc) == exc = NoException

\* the "finally" of the worker's try: task_done, whatever initialize did
TaskDoneCount_on_success_only(exc) == IF exc = NoException THEN 1 ELSE 0

TaskDoneCount(exc) == 1

\* "while True": after task_done the worker gets the next plugin
AfterTaskDone_return == "returned"

AfterTaskDone == "get"

RECURSIVE TreeSizes(_, _)
TreeSizes(t, n) == IF n = 0 THEN 0 ELSE Len(t[n]) + TreeSizes(t, n - 1)

\* a run: the pool size, which acquisitions succeed, and the trees of the sources
PipelineInit ==
    /\ cpu_count \in 1..MaxWorkers
    /\ clone_ok \in [Sources -> BOOLEAN]
    /\ tree \in {t \in [Sources -> SeqsUpTo(PipelineFiles, MaxPlugins)] :
                    TreeSizes(t, NumSources) <= MaxPlugins}
    /\ cpc = "idle"
    /\ ppc = [s \in Sources |-> "new"]
    /\ walked = [s \in Sources |-> 0]
    /\ source_errors = {}
    /\ task_errors = {}
    /\ caller_exc = NoException
    /\ plugins = <<>>
    /\ pending_plugins = <<>>
    /\ unfinished_tasks = 0
    /\ producers_waiting = {}
    /\ initialized_plugins = <<>>
    /\ wpc = [w \in Workers |-> "new"]
    /\ wcur = [w \in Workers |-> NoPlugin]
    /\ worker_errors = {}
    /\ dequeued = <<>>
    /\ acked = <<>>
    /\ ExtractIdle
    /\ GraphIdle
    /\ RestIdle

\* import_plugins up to its first await: the queue, a producer task per source,
\* a worker task per processor
ImportPlugins ==
    /\ cpc = "idle"
    /\ cpc' = "sourcing"
    /\ ppc' = [s \in Sources |-> "acquire"]
    /\ wpc' = [w \in Workers |-> IF w <= cpu_count THEN "get" ELSE "new"]
    /\ UNCHANGED <<cpu_count, clone_ok, tree, walked, source_errors, task_errors, caller_exc,
                   plugins, pending_plugins, unfinished_tasks, producers_waiting,
                   initialized_plugins, wcur, worker_errors, dequeued, acked>>
    /\ UNCHANGED <<extract_vars, graph_vars, rest_vars>>

\* import_plugin_source_archive: get_plugins awaits the repository's initialize;
\* an error of the acquisition is caught and logged by the producer
ProducerAcquire(s) ==
    /\ ppc[s] = "acquire"
    /\ ppc' = [ppc EXCEPT ![s] = IF Len(tree[s]) = 0 THEN "done"
                                  ELSE AfterAcquire(clone_ok[s])]
    /\ source_errors' = IF ~clone_ok[s] /\ ProducerCatches(AcquisitionError)
                        THEN source_errors \cup {s} ELSE source_errors
    /\ task_errors' = IF ~clone_ok[s] /\ ~ProducerCatches(AcquisitionError)
                      THEN task_errors \cup {s} ELSE task_errors
    /\ UNCHANGED <<cpu_count, clone_ok, tree, cpc, walked, caller_exc, plugins,
                   pending_plugins, unfinished_tasks, producers_waiting,
                   initialized_plugins, wpc, wcur, worker_errors, dequeued, acked>>
    /\ UNCHANGED <<extract_vars, graph_vars, rest_vars>>

\* the next candidate of the walk: get_plugins creates the MuninPlugin and the
\* producer puts it on the pending queue, or waits in put if the queue is full;
\* after the last candidate the producer task ends
ProducerPut(s) ==
    /\ ppc[s] = "walk"
    /\ walked[s] < Len(tree[s])
    /\ LET id == <<s, walked[s] + 1>>
       IN  IF QueueFull(pending_plugins, PendingMaxsize)
           THEN /\ producers_waiting' = producers_waiting \cup {s}
                /\ UNCHANGED <<ppc, walked, plugins, pending_plugins,
                               unfinished_tasks, acked>>
           ELSE /\ producers_waiting' = producers_waiting \ {s}
                /\ ppc' = [ppc EXCEPT ![s] = IF walked[s] + 1 = Len(tree[s])
                                              THEN "done" ELSE "walk"]
                /\ walked' = [walked EXCEPT ![s] = @ + 1]
                /\ plugins' = plugins @@ (id :> MuninPlugin(id, <<SourceName(s)>>, None))
                /\ acked' = acked @@ (id :> 0)
                /\ pending_plugins' = Append(pending_plugins, id)
                /\ unfinished_tasks' = unfinished_tasks + 1
    /\ UNCHANGED <<cpu_count, clone_ok, tree, cpc, source_errors, task_errors, caller_exc,
                   initialized_plugins, wpc, wcur, worker_errors, dequeued>>
    /\ UNCHANGED <<extract_vars, graph_vars, rest_vars>>

\* what a worker step leaves alone
WorkerFrame ==
    /\ UNCHANGED <<cpu_count, clone_ok, tree, cpc, ppc, walked, source_errors,
                   task_errors, caller_exc, producers_waiting>>
    /\ UNCHANGED <<extract_vars, graph_vars, rest_vars>>

\* The end of one turn of the worker's loop, initialize having returned or
\* raised exc: the "except", the "else" (put on the results queue, which has no
\* maxsize) and the "finally" (task_done), then the head of the loop.
EndIteration(w, id, exc) ==
    /\ worker_errors' = IF exc = NoException THEN worker_errors
                        ELSE worker_errors \cup {id}
    /\ initialized_plugins' = IF WorkerForwards(exc)
                              THEN Append(initialized_plugins, id)
                              ELSE initialized_plugins
    /\ unfinished_tasks' = unfinished_tasks - TaskDoneCount(exc)
    /\ acked' = [acked EXCEPT ![id] = @ + TaskDoneCount(exc)]
    /\ wpc' = [wpc EXCEPT ![w] = AfterTaskDone]

\* worker_initialize_plugins: "plugin = await jobs.get()" returns a plugin and
\* initialize runs up to its first await: the file is read and, if its text has
\* documentation, perldoc is started; if not, "git log" is.  An OSError of
\* open() ends the turn.
WorkerGet(w) ==
    /\ wpc[w] = "get"
    /\ pending_plugins # <<>>
    /\ LET id == Head(pending_plugins)
           p == plugins[id]
           f == FileOf(id)
           p1 == ReadPluginCode(p, f)
       IN  /\ wcur' = [wcur EXCEPT ![PluginSlot(w)] = id]
           /\ pending_plugins' = Tail(pending_plugins)
           /\ dequeued' = Append(dequeued, id)
           /\ IF ~InitializeGuard(p)
              THEN EndIteration(w, id, NoException) /\ UNCHANGED plugins
              ELSE IF ~f.readable
              THEN EndIteration(w, id, "OSError") /\ UNCHANGED plugins
              ELSE IF NeedsPerldoc(p1) /\ f.perldoc # "spawn_error"
              THEN /\ plugins' = [plugins EXCEPT ![id] = p1]
                   /\ wpc' = [wpc EXCEPT ![w] = "perldoc"]
                   /\ UNCHANGED <<worker_errors, initialized_plugins,
                                  unfinished_tasks, acked>>
              ELSE /\ plugins' = [plugins EXCEPT ![id] = SetParsed(p1, None)]
                   /\ wpc' = [wpc EXCEPT ![w] = "gitlog"]
                   /\ UNCHANGED <<worker_errors, initialized_plugins,
                                  unfinished_tasks, acked>>
    /\ WorkerFrame

\* _parse_documentation: "await process.wait()" returns and the output is read;
\* initialize goes on to its next await, "git log", unless the output cannot be
\* decoded, which ends the turn
WorkerPerldocExit(w) ==
    /\ wpc[w] = "perldoc"
    /\ LET id == wcur[PluginSlot(w)]
           r == PerldocResult(FileOf(id))
       IN  /\ PerldocExits(FileOf(id))
           /\ IF r.exc # NoException
              THEN EndIteration(w, id, r.exc) /\ UNCHANGED plugins
              ELSE /\ plugins' = [plugins EXCEPT ![id] = SetParsed(@, r.documentation)]
                   /\ wpc' = [wpc EXCEPT ![w] = "gitlog"]
                   /\ UNCHANGED <<worker_errors, initialized_plugins,
                                  unfinished_tasks, acked>>
    /\ UNCHANGED <<pending_plugins, wcur, dequeued>>
    /\ WorkerFrame

\* "git log" answers: initialize runs to its end, and the turn of the loop too
WorkerGitLog(w) ==
    /\ wpc[w] = "gitlog"
    /\ LET id == wcur[PluginSlot(w)]
           f == FileOf(id)
           fin == FinishInitialize(plugins[id], f, get_file_timestamp(f))
       IN  /\ plugins' = [plugins EXCEPT ![id] = fin.plugin]
           /\ EndIteration(w, id, fin.exc)
    /\ UNCHANGED <<pending_plugins, wcur, dequeued>>
    /\ WorkerFrame

\* what a step of import_plugins leaves alone
CoordinatorFrame ==
    /\ UNCHANGED <<cpu_count, clone_ok, tree, ppc, walked, source_errors, task_errors,
                   plugins, pending_plugins, unfinished_tasks, producers_waiting,
                   initialized_plugins, wpc, wcur, worker_errors, dequeued, acked>>
    /\ UNCHANGED <<extract_vars, graph_vars, rest_vars>>

\* await asyncio.gather(*plugin_source_workers, return_exceptions=True) returns
Gathered ==
    /\ cpc = "sourcing"
    /\ \A s \in Sources : ppc[s] = "done"
    /\ cpc' = "draining"
    /\ caller_exc' = GatherRaises(task_errors)
    /\ CoordinatorFrame

\* await pending_plugins.join() returns, and with it import_plugins
Joined ==
    /\ cpc = "draining"
    /\ JoinReturns(pending_plugins, unfinished_tasks)
    /\ cpc' = "done"
    /\ UNCHANGED caller_exc
    /\ CoordinatorFrame

Next ==
    \/ ImportPlugins
    \/ \E s \in Sources : ProducerAcquire(s)
    \/ \E s \in Sources : ProducerPut(s)
    \/ \E w \in Workers : WorkerGet(w)
    \/ \E w \in Workers : WorkerPerldocExit(w)
    \/ \E w \in Workers : WorkerGitLog(w)
    \/ Gathered
    \/ Joined

Spec == PipelineInit /\ [][Next]_vars

\* The event loop runs a task that can continue as long as there is one, and an
\* external process that can exit does exit: some step is taken while one can be.
Fairness == WF_vars(Next)

FairSpec == PipelineInit /\ [][Next]_vars /\ Fairness

\* ----------------------------------------------------- claims C1-C6, C10
Range(q) == {q[i] : i \in 1..Len(q)}

\* the candidates of the trees of the run
FileIds == {id \in PluginIds : id[2] <= Len(tree[id[1]])}

\* a whole call of initialize on the plugin of a file returns without exception
ExtractsOK(id) ==
    LET r == initialize(MuninPlugin(id, <<SourceName(id[1])>>, None), FileOf(id))
    IN  r.returns /\ r.exc = NoException

\* what a run is to yield: the plugins of the acquired sources that extract
ExpectedPlugins == {id \in FileIds : clone_ok[id[1]] /\ ExtractsOK(id)}

ActiveWorkers == {w \in Workers : w <= cpu_count}

Quiescent ==
    /\ \A s \in Sources : ppc[s] = "done"
    /\ pending_plugins = <<>>
    /\ unfinished_tasks = 0
    /\ \A id \in Range(dequeued) : acked[id] = 1
    /\ \A w \in ActiveWorkers : wpc[w] = "get"

\* C1: when import_plugins returns, every producer has finished, the pending
\* queue is empty, every dequeued plugin has been acknowledged and no worker is
\* in an extraction; from then on nothing is put on the results queue.
C1_DoneIsQuiescent ==
    [][cpc' = "done" =>
          /\ Quiescent'
          /\ cpc = "done" => initialized_plugins' = initialized_plugins]_vars

\* C1 witness: a run of two workers has returned, with a plugin extracted and a
\* plugin dropped
C1_Witness ==
    /\ cpc = "done"
    /\ cpu_count = 2
    /\ Len(dequeued) = MaxPlugins
    /\ initialized_plugins # <<>>
    /\ worker_errors # {}

\* C2: every plugin on the results queue has completed its extraction: its flag
\* is set, every derived attribute is assigned and its extraction did not fail.
C2_ResultsAreInitialized ==
    \A id \in Range(initialized_plugins) :
        /\ plugins[id].is_initialized
        /\ AllDerivedAssigned(plugins[id])
        /\ id \notin worker_errors

\* C2 witness: a plugin is on the results queue while another is in extraction
C2_Witness ==
    /\ initialized_plugins # <<>>
    /\ \E w \in ActiveWorkers :
           /\ wpc[w] = "perldoc"
           /\ ~plugins[wcur[w]].is_initialized
           /\ wcur[w] \notin Range(initialized_plugins)

\* C3: a failed acquisition is caught in the producer of its source and never
\* raised to the caller; that source contributes no plugin, and every other
\* source has all its plugins enqueued, extracted and forwarded.
C3_SourceFailureIsContained ==
    /\ task_errors = {}
    /\ caller_exc = NoException
    /\ \A s \in Sources : ~clone_ok[s] =>
           /\ walked[s] = 0
           /\ \A id \in DOMAIN plugins : id[1] # s
           /\ ppc[s] = "done" => s \in source_errors
    /\ cpc = "done" =>
           \A s \in Sources : clone_ok[s] =>
               /\ walked[s] = Len(tree[s])
               /\ s \notin source_errors
               /\ \A i \in 1..Len(tree[s]) :
                      ExtractsOK(<<s, i>>) => <<s, i>> \in Range(initialized_plugins)

\* C3 witness: a run has returned in which the acquisition of a source with
\* plugins failed and another source delivered all of its plugins
C3_Witness ==
    /\ cpc = "done"
    /\ \E s, t \in Sources :
           /\ ~clone_ok[s] /\ tree[s] # <<>> /\ s \in source_errors
           /\ clone_ok[t] /\ tree[t] # <<>>
           /\ \A i \in 1..Len(tree[t]) : <<t, i>> \in Range(initialized_plugins)

\* C4: a plugin whose extraction raised is not put on the results queue and is
\* acknowledged exactly once; the worker stays in its loop; no plugin is
\* acknowledged more than once or before it was dequeued.
C4_FailureIsDroppedAndAcked ==
    /\ \A id \in worker_errors :
           id \notin Range(initialized_plugins) /\ acked[id] = 1
    /\ \A id \in DOMAIN acked :
           acked[id] <= 1 /\ (acked[id] = 1 => id \in Range(dequeued))
    /\ \A w \in ActiveWorkers : cpc # "idle" => wpc[w] \in {"get", "perldoc", "gitlog"}
    /\ \A id \in Range(pending_plugins) : acked[id] = 0

\* C4 witness: a single worker dropped a plugin and then extracted and forwarded
\* the one that followed it on the pending queue
C4_Witness ==
    /\ cpu_count = 1
    /\ \E i, j \in 1..Len(dequeued) :
           /\ i < j
           /\ dequeued[i] \in worker_errors
           /\ dequeued[j] \in Range(initialized_plugins)
           /\ acked[dequeued[j]] = 1

\* C5: whatever the size of the pool and the interleaving, a run that returns
\* leaves on the results queue exactly the plugins of its input that extract,
\* each once.
C5_SameSetForEveryPool ==
    cpc = "done" =>
        /\ Range(initialized_plugins) = ExpectedPlugins
        /\ Len(initialized_plugins) = Cardinality(ExpectedPlugins)

\* C5 witness: a run of two workers has returned with its plugins in another
\* order than a single worker leaves them in
C5_Witness ==
    /\ cpc = "done"
    /\ cpu_count > 1
    /\ Len(initialized_plugins) >= 2
    /\ \E i, j \in 1..Len(dequeued) :
           /\ i < j
           /\ \E k, l \in 1..Len(initialized_plugins) :
                  /\ k < l
                  /\ initialized_plugins[k] = dequeued[j]
                  /\ initialized_plugins[l] = dequeued[i]

\* a perldoc process that never exits: it cannot write all of its output
PerldocNeverReturns ==
    \E w \in ActiveWorkers : wpc[w] = "perldoc" /\ ~PerldocExits(FileOf(wcur[PluginSlot(w)]))

\* C6: under fair scheduling import_plugins returns, unless an external process
\* started by a worker never returns.
C6_RunCompletes == <>(cpc = "done") \/ <>[]PerldocNeverReturns

\* C6 witness: a run has returned in which an acquisition failed and an
\* extraction raised
C6_Witness ==
    /\ cpc = "done"
    /\ source_errors # {}
    /\ worker_errors # {}
    /\ initialized_plugins # <<>>

RECURSIVE SumWalked(_)
SumWalked(n) == IF n = 0 THEN 0 ELSE walked[n] + SumWalked(n - 1)

\* C10 as stated: the pending queue has a capacity that does not depend on the
\* input, so that it never holds all the plugins of the largest input at once.
C10_PendingBounded == Len(pending_plugins) < MaxPlugins

\* C10 as amended: the pending queue has no capacity: no producer ever waits in
\* put, and the queue holds every plugin enqueued and not yet dequeued, up to
\* all the plugins of the sources.
C10_PendingUnbounded ==
    /\ producers_waiting = {}
    /\ ~QueueFull(pending_plugins, PendingMaxsize)
    /\ Len(pending_plugins) = SumWalked(NumSources) - Len(dequeued)

\* C10 witness: every plugin of the largest input is on the pending queue
C10_Witness ==
    /\ Len(pending_plugins) = MaxPlugins
    /\ \A s \in Sources : ppc[s] = "done"


\* ------------------------------------------------------------ claims C7-C9

\* C7: once the text of the plugin file has been read, a call of initialize
\* raises nothing, whatever the text is, and leaves the plugin initialized
\* with every derived attribute assigned.
C7_ExtractionNeverRaises ==
    (xcalls > 0 /\ xfile.readable /\ xreturned) =>
        /\ xexc = NoException
        /\ xplugin.is_initialized
        /\ AllDerivedAssigned(xplugin)

\* C8: after a completed call of initialize, a further call changes no
\* attribute of the plugin, opens no file and starts no process.
C8_InitializeIdempotent ==
    [][xplugin.is_initialized =>
          /\ xplugin' = xplugin
          /\ xexc' = NoException
          /\ file_reads' = file_reads
          /\ perldoc_runs' = perldoc_runs
          /\ gitlog_runs' = gitlog_runs]_vars

\* C8 witness: a second call was made on a plugin the first call initialized,
\* a plugin that has documentation and a timestamp from its repository
C8_Witness ==
    /\ xcalls >= 2
    /\ xbefore.is_initialized
    /\ xplugin.is_initialized
    /\ file_reads = 1
    /\ perldoc_runs = 1
    /\ gitlog_runs = 1
    /\ ~Falsy(xplugin.documentation)

\* the order C9 states: the periods first, in the sequence day, week, month,
\* year; then the numerals by value; then every other key, by its characters
ClaimedRank(key) ==
    CASE key = KeyDay   -> 1
      [] key = KeyWeek  -> 2
      [] key = KeyMonth -> 3
      [] key = KeyYear  -> 4
      [] IsNumeral(key) -> 5
      [] OTHER          -> 6

ClaimedLess(a, b) ==
    \/ ClaimedRank(a) < ClaimedRank(b)
    \/ ClaimedRank(a) = 5 /\ ClaimedRank(b) = 5 /\ IntOf(a) < IntOf(b)
    \/ ClaimedRank(a) = 6 /\ ClaimedRank(b) = 6 /\ StrLess(a, b)

\* C9: __lt__ is the stated order on every pair of keys, and the example
\* graphs of a plugin are listed in that order.
C9_GraphOrder ==
    /\ compared # <<>> => (compared[3] <=> ClaimedLess(compared[1], compared[2]))
    /\ images_found =>
           \A i, j \in 1..Len(example_graphs) :
               i < j => ~ClaimedLess(example_graphs[j], example_graphs[i])

\* --------------------------- MuninPluginRepository: the workspace directory
\* how _import_git_repository ends: it returns the plugins directory, git
\* cannot be started, or git exits with an error
AcquisitionOutcomes == {"cloned", "spawn_error", "clone_failed"}

\* "if not self._is_downloaded" of initialize
AcquireGuard(s) == ~is_downloaded[s]

\* "if self._is_downloaded" of __del__
DelGuard(s) == is_downloaded[s]

\* the repository objects of the sources, none acquired
RepoInit ==
    /\ RepoIdle
    /\ PipelineIdle
    /\ ExtractIdle
    /\ GraphIdle
    /\ KeywordIdle
    /\ DiscoveryIdle
    /\ PublishIdle

\* MuninPluginRepository.initialize: mkdtemp, then the import into the new
\* directory, which raises MuninPluginRepositoryProcessingError if it fails
RepositoryInitialize(s) ==
    /\ repo_calls[s] < MaxRepoCalls
    /\ IF AcquireGuard(s)
       THEN \E outcome \in AcquisitionOutcomes :
                LET d == <<s, mkdtemp_count[s] + 1>>
                IN  /\ mkdtemp_count' = [mkdtemp_count EXCEPT ![s] = @ + 1]
                    /\ disk' = disk \cup {d}
                    /\ extract_directory' = [extract_directory EXCEPT ![s] = d]
                    /\ IF outcome = "cloned"
                       THEN /\ plugins_directory' = [plugins_directory EXCEPT ![s] = d]
                            /\ is_downloaded' = [is_downloaded EXCEPT ![s] = TRUE]
                            /\ repo_exc' = [repo_exc EXCEPT ![s] = NoException]
                       ELSE /\ repo_exc' = [repo_exc EXCEPT ![s] = AcquisitionError]
                            /\ UNCHANGED <<plugins_directory, is_downloaded>>
       ELSE /\ repo_exc' = [repo_exc EXCEPT ![s] = NoException]
            /\ UNCHANGED <<mkdtemp_count, disk, extract_directory, plugins_directory,
                           is_downloaded>>
    /\ last_call' = [last_call EXCEPT ![s] = "initialize"]
    /\ repo_calls' = [repo_calls EXCEPT ![s] = @ + 1]
    /\ UNCHANGED <<rmtree_log, outside_repo>>

\* MuninPluginRepository.__del__
RepositoryDel(s) ==
    /\ repo_calls[s] < MaxRepoCalls
    /\ IF DelGuard(s)
       THEN /\ disk' = disk \ {extract_directory[s]}
            /\ rmtree_log' = Append(rmtree_log, extract_directory[s])
            /\ extract_directory' = [extract_directory EXCEPT ![s] = NoDirectory]
            /\ plugins_directory' = [plugins_directory EXCEPT ![s] = NoDirectory]
            /\ is_downloaded' = [is_downloaded EXCEPT ![s] = FALSE]
       ELSE UNCHANGED <<disk, rmtree_log, extract_directory, plugins_directory,
                        is_downloaded>>
    /\ repo_exc' = [repo_exc EXCEPT ![s] = NoException]
    /\ last_call' = [last_call EXCEPT ![s] = "__del__"]
    /\ repo_calls' = [repo_calls EXCEPT ![s] = @ + 1]
    /\ UNCHANGED <<mkdtemp_count, outside_repo>>

RepoNext ==
    \/ \E s \in Sources : RepositoryInitialize(s)
    \/ \E s \in Sources : RepositoryDel(s)

RepoSpec == RepoInit /\ [][RepoNext]_vars

\* ------------------------------------------------------------ claim C11

\* C11: after the cleanup of a repository, whatever the state of its
\* acquisition was, the cleanup has raised nothing, no workspace directory made
\* for that repository is on disk, and no directory was removed twice.
C11_CleanupSafeAndComplete ==
    /\ \A s \in Sources : last_call[s] = "__del__" =>
           /\ repo_exc[s] = NoException
           /\ \A d \in disk : d[1] # s
    /\ \A i, j \in 1..Len(rmtree_log) : i # j => rmtree_log[i] # rmtree_log[j]

\* ------------------------------------------------------------ claim C12

\* C12: a plugin whose text has no "=head1" never has perldoc started for it,
\* whatever the text is: after a call of initialize no perldoc process was
\* started, and the documentation and the summary are None.
C12_NoMarkerNoRenderer ==
    (xcalls > 0 /\ xfile.readable /\ ~Contains(xfile.code, "HEAD")) =>
        /\ perldoc_runs = 0
        /\ xplugin.documentation = None
        /\ xplugin.summary = None

\* C12 witness: initialize has completed on a plugin without the marker whose
\* file perldoc would render a documentation with a summary for
C12_Witness ==
    /\ xcalls > 0
    /\ xfile.readable
    /\ xfile.code # <<>>
    /\ ~Contains(xfile.code, "HEAD")
    /\ xfile.perldoc = "doc_summary"
    /\ xplugin.is_initialized
    /\ perldoc_runs = 0

\* ------------------------------------------ the path keywords of one plugin
\* A directory path as os.walk hands it to get_plugins, relative to the plugin
\* root: no segment is empty, "." or "..".
IsDirectoryPath(path) ==
    \/ path = <<>>
    \/ \A i \in 1..Len(split(path)) :
           split(path)[i] \notin {<<>>, <<".">>, <<".", ".">>}

DirectoryPaths == {path \in SeqsUpTo(PathLexemes, MaxPathLen) : IsDirectoryPath(path)}

\* a plugin file in a directory of the tree, created with or without repository
KeywordInit ==
    /\ kdirpath \in DirectoryPaths
    /\ khas_repository \in BOOLEAN
    /\ kkeywords = <<>>
    /\ kdone = FALSE
    /\ PipelineIdle
    /\ ExtractIdle
    /\ GraphIdle
    /\ RepoIdle
    /\ DiscoveryIdle
    /\ PublishIdle

\* initialize: self.path_keywords = tuple(self._get_keywords())
GetKeywords ==
    /\ ~kdone
    /\ kkeywords' = _get_keywords(khas_repository, join(kdirpath, PluginBasename))
    /\ kdone' = TRUE
    /\ UNCHANGED <<kdirpath, khas_repository, outside_keyword>>

KeywordNext == GetKeywords

KeywordSpec == KeywordInit /\ [][KeywordNext]_vars

\* ------------------------------------------------------------ claim C13
\* a segment in lower case, without a leading "node.d."
Stripped(segment) ==
    LET low == Lower(segment)
    IN  IF Len(low) >= 2 /\ SubSeq(low, 1, 2) = <<"node.d", ".">>
        THEN SubSeq(low, 3, Len(low)) ELSE low

RECURSIVE KeywordsAsStated(_)
KeywordsAsStated(segments) ==
    IF segments = <<>> THEN <<>>
    ELSE LET rest == KeywordsAsStated(Tail(segments))
         IN  IF Lower(Head(segments)) = <<"node.d">> \/ Stripped(Head(segments)) = <<>>
             THEN rest ELSE <<Stripped(Head(segments))>> \o rest

RECURSIVE KeywordsAsAmended(_)
KeywordsAsAmended(segments) ==
    IF segments = <<>> THEN <<>>
    ELSE LET rest == KeywordsAsAmended(Tail(segments))
         IN  IF Stripped(Head(segments)) \in {<<>>, <<"node.d">>}
             THEN rest ELSE <<Stripped(Head(segments))>> \o rest

\* C13 as stated: the keywords are made of the segments of the path of the
\* plugin relative to the plugin root, a segment that is exactly "node.d" being
\* dropped; a plugin without repository has none.
C13_KeywordsOfPluginPath ==
    kdone =>
        kkeywords = IF khas_repository
                    THEN KeywordsAsStated(split(join(kdirpath, PluginBasename)))
                    ELSE <<>>

\* C13 as amended: the keywords are made of the segments of the path of the
\* directory of the plugin, its file name left out; a segment that is "node.d"
\* once a leading "node.d." is removed is dropped too; the directory
\* "node.d.linux/cpu" gives ("linux", "cpu"), "node.d/cpu" gives ("cpu",) and
\* the plugin root itself gives (".",); a plugin without repository has none.
C13_KeywordsOfDirectory ==
    kdone =>
        /\ kkeywords = IF ~khas_repository THEN <<>>
                       ELSE IF kdirpath = <<>> THEN << <<".">> >>
                       ELSE KeywordsAsAmended(split(kdirpath))
        /\ \A i \in 1..Len(kkeywords) : kkeywords[i] # <<>>
        /\ (khas_repository /\ kdirpath = <<"node.d", ".", "linux", "/", "cpu">>)
               => kkeywords = << <<"linux">>, <<"cpu">> >>
        /\ (khas_repository /\ kdirpath = <<"node.d", "/", "cpu">>)
               => kkeywords = << <<"cpu">> >>

\* C13 witness: the keywords of a plugin in the directory "node.d.linux/cpu"
C13_Witness ==
    /\ kdone
    /\ khas_repository
    /\ kdirpath = <<"node.d", ".", "linux", "/", "cpu">>
    /\ kkeywords = << <<"linux">>, <<"cpu">> >>

\* ---------------------------------- get_plugins: the walk of a plugin tree
(***************************************************************************)
(* A directory is the sequence of the names on its path from the plugin    *)
(* root, the root being the empty sequence.  A file name is the sequence   *)
(* of its stem and its suffixes.                                           *)
(***************************************************************************)
\* EXAMPLE_GRAPH_DIRECTORY_NAME
EXAMPLE_GRAPH_DIRECTORY_NAME == "example-graphs"

\* the names of the directories get_plugins does not take plugins from
SkippedDirectoryNames == {EXAMPLE_GRAPH_DIRECTORY_NAME, "node.d.debug"}

DirectoryNames == {"node.d"} \cup SkippedDirectoryNames

FileNames ==
    {<<"cpu">>, <<"cpu", ".in">>, <<"tool", ".c">>, <<"tool", ".cpp">>, <<"README">>}

\* A file of the tree: its name, whether os.stat succeeds on it, and whether
\* its mode has the bit 0o100 (nothing is known of the mode if stat fails).
DiscoveryFiles ==
    {f \in [filename : FileNames, stat_ok : BOOLEAN, executable : BOOLEAN] :
        ~f.stat_ok => ~f.executable}

Parent(dirpath) == SubSeq(dirpath, 1, Len(dirpath) - 1)

\* the trees: the sets of directories that hold the parent of each of their
\* directories
PluginTrees ==
    {T \in SUBSET (SeqsUpTo(DirectoryNames, MaxDepth) \ {<<>>}) :
        /\ Cardinality(T) <= MaxDirs
        /\ \A d \in T : Parent(d) = <<>> \/ Parent(d) \in T}

\* the sequences that list the directories of a set, each once
Orderings(D) ==
    {q \in [1..Cardinality(D) -> D] : \A i, j \in 1..Cardinality(D) : i # j => q[i] # q[j]}

\* os.path.basename(dirpath); the plugin root has a name of its own
Basename(dirpath) == IF dirpath = <<>> THEN "plugins" ELSE dirpath[Len(dirpath)]

\* name.endswith(suffix)
EndsWith(name, suffix) == Len(name) > 1 /\ name[Len(name)] = suffix

\* name[:-len(suffix)]
WithoutSuffix(name) == SubSeq(name, 1, Len(name) - 1)

\* MuninPlugin.__init__: the name, from which an optional suffix is removed
PluginName(name) == IF EndsWith(name, ".in") THEN WithoutSuffix(name) ELSE name

\* the plugin of one "yield MuninPlugin(...)"
Candidate(dirpath, f, name, language) ==
    [dirpath |-> dirpath, file |-> f, name |-> PluginName(name), language |-> language]

\* get_plugins after a successful acquisition, at the head of os.walk
DiscoveryInit ==
    /\ dtree \in PluginTrees
    /\ dwalk = << <<>> >>
    /\ dpc = "walk"
    /\ ddirpath = <<>>
    /\ dfilenames = <<>>
    /\ status = Unbound
    /\ dvisited = <<>>
    /\ candidates = <<>>
    /\ dexc = NoException
    /\ PipelineIdle
    /\ ExtractIdle
    /\ GraphIdle
    /\ RepoIdle
    /\ KeywordIdle
    /\ PublishIdle

\* One turn of "for dirpath, dirnames, filenames in os.walk(...)": os.walk
\* yields the next directory and will go down into each of its directories,
\* in the order the file system lists them; the "continue" of a skipped
\* directory leaves its files alone.
WalkDirectory ==
    /\ dpc = "walk"
    /\ dwalk # <<>>
    /\ LET dirpath == Head(dwalk)
           dirnames == {d \in dtree : Parent(d) = dirpath}
       IN  /\ ddirpath' = dirpath
           /\ \E below \in Orderings(dirnames) : dwalk' = below \o Tail(dwalk)
           /\ IF Basename(dirpath) \in SkippedDirectoryNames
              THEN dfilenames' = <<>>
              ELSE \E filenames \in SeqsUpTo(DiscoveryFiles, MaxFiles - Len(dvisited)) :
                       dfilenames' = filenames
    /\ dpc' = "files"
    /\ UNCHANGED <<dtree, status, dvisited, candidates, dexc, outside_discovery>>

\* One turn of "for filename in filenames": os.stat, whose OSError is passed
\* over, then the test of status.st_mode and of the name.
VisitFile ==
    /\ dpc = "files"
    /\ dfilenames # <<>>
    /\ LET f == Head(dfilenames)
           st == IF f.stat_ok
                 THEN (IF f.executable THEN "executable" ELSE "not executable")
                 ELSE status
           yielded ==
               IF st = "executable" THEN <<Candidate(ddirpath, f, f.filename, None)>>
               ELSE IF EndsWith(f.filename, ".in")
               THEN <<Candidate(ddirpath, f, WithoutSuffix(f.filename), None)>>
               ELSE IF EndsWith(f.filename, ".c")
               THEN <<Candidate(ddirpath, f, WithoutSuffix(f.filename), <<"c">>)>>
               ELSE IF EndsWith(f.filename, ".cpp")
               THEN <<Candidate(ddirpath, f, WithoutSuffix(f.filename), <<"cpp">>)>>
               ELSE <<>>
       IN  /\ status' = st
           /\ dvisited' = Append(dvisited, [dirpath |-> ddirpath, file |-> f])
           /\ IF st = Unbound
              THEN /\ dexc' = "UnboundLocalError"
                   /\ dpc' = "done"
                   /\ UNCHANGED <<candidates, dfilenames>>
              ELSE /\ candidates' = candidates \o yielded
                   /\ dfilenames' = Tail(dfilenames)
                   /\ UNCHANGED <<dexc, dpc>>
    /\ UNCHANGED <<dtree, dwalk, ddirpath, outside_discovery>>

\* the inner loop is through: the next turn of the outer loop, or the end
EndOfDirectory ==
    /\ dpc = "files"
    /\ dfilenames = <<>>
    /\ dpc' = IF dwalk = <<>> THEN "done" ELSE "walk"
    /\ UNCHANGED <<dtree, dwalk, ddirpath, dfilenames, status, dvisited, candidates, dexc,
                   outside_discovery>>

DiscoveryNext == WalkDirectory \/ VisitFile \/ EndOfDirectory

DiscoverySpec == DiscoveryInit /\ [][DiscoveryNext]_vars

\* ------------------------------------------------------------ claim C14

\* C14: no plugin is yielded from a directory named "example-graphs" or
\* "node.d.debug", nor from any directory below one.
C14_SkippedEntirely ==
    \A i \in 1..Len(candidates) :
        \A k \in 1..Len(candidates[i].dirpath) :
            candidates[i].dirpath[k] \notin SkippedDirectoryNames

\* ------------------------------------------------------------ claim C15
\* the last part of a file name that has a suffix, and the name without it
Suffix(filename) == IF Len(filename) > 1 THEN filename[Len(filename)] ELSE ""

Stem(filename) == SubSeq(filename, 1, Len(filename) - 1)

\* what C15 states a file yields, seen by itself
ClassifiedAsStated(v) ==
    LET f == v.file
        made(name, language) ==
            <<[dirpath |-> v.dirpath, file |-> f, name |-> name, language |-> language]>>
    IN  IF ~f.stat_ok THEN <<>>
        ELSE IF f.executable
        THEN made(IF Suffix(f.filename) = ".in" THEN Stem(f.filename) ELSE f.filename, None)
        ELSE IF Suffix(f.filename) = ".in" THEN made(Stem(f.filename), None)
        ELSE IF Suffix(f.filename) = ".c" THEN made(Stem(f.filename), <<"c">>)
        ELSE IF Suffix(f.filename) = ".cpp" THEN made(Stem(f.filename), <<"cpp">>)
        ELSE <<>>

RECURSIVE AllClassifiedAsStated(_)
AllClassifiedAsStated(visited) ==
    IF visited = <<>> THEN <<>>
    ELSE ClassifiedAsStated(Head(visited)) \o AllClassifiedAsStated(Tail(visited))

\* C15: the plugins yielded are those of the files visited, each classified by
\* its own mode and name alone: an executable file first, then ".in", then
\* ".c" and ".cpp"; a file of any other name, or whose status cannot be read,
\* yields nothing, and discovery goes on to the next file.
C15_ClassifiedByPriority ==
    /\ dexc = NoException
    /\ candidates = AllClassifiedAsStated(dvisited)

\* ------------------------------------------------- publish_plugins_hugo
\* The run of "asyncio.run(publish_plugins_hugo(...))" on the event loop.  The
\* loop keeps the callbacks that are ready in a queue and runs them one at a
\* time, first in first out; a callback is a step of a task, from the await
\* that suspended it to the next that does, or the done callback of gather.  A
\* step that lets another task continue (a put on a queue with a waiting
\* getter, the last task_done with join waiting, the end of a task that is
\* gathered, a cancellation) appends that task's step to the queue; so does the
\* exit of an external process a task waits for.  Queue.put on a queue without
\* maxsize, Queue.get on a queue with items, Queue.join without unfinished
\* items and MuninPluginsHugoExport.add (which awaits nothing) do not suspend.
\* The pool size, the outcomes of the acquisitions and the trees are those of
\* the import pipeline: cpu_count, clone_ok, tree.
PublishInit == PipelineInit

Running(task) == ready # <<>> /\ Head(ready) = task

MainTask == <<"main", 0>>
ExporterTask == <<"exporter", 0>>
ProducerTask(s) == <<"producer", s>>
WorkerTask(w) == <<"worker", w>>
GatherCallback(s) == <<"gather", s>>

\* the workspace directory tempfile.mkdtemp makes for a repository
Workspace(s) == <<s, 1>>

\* publish_plugins_hugo from the creation of the exporter to the gather of
\* import_plugins, and the first step of every task it has created, which the
\* loop runs in the order of creation before any process can have exited: the
\* consumer waits in get on the results queue, every producer makes the
\* workspace directory of its repository and starts "git clone", every worker
\* waits in get on the pending queue.
PublishStart ==
    /\ main_pc = "start"
    /\ main_pc' = "gather"
    /\ exporter_pc' = "get"
    /\ producer_pc' = [s \in Sources |-> "clone"]
    /\ worker_pc' = [w \in Workers |-> IF w <= cpu_count THEN "get" ELSE "new"]
    /\ jobs_getters' = [i \in 1..cpu_count |-> i]
    /\ extract_directory' = [s \in Sources |-> Workspace(s)]
    /\ mkdtemp_count' = [s \in Sources |-> 1]
    /\ disk' = {Workspace(s) : s \in Sources}
    /\ last_call' = [s \in Sources |-> "initialize"]
    /\ repo_calls' = [s \in Sources |-> 1]
    /\ UNCHANGED <<is_downloaded, plugins_directory, rmtree_log, repo_exc>>
    /\ UNCHANGED <<ready, nfinished, jobs, jobs_unfinished, worker_plugin,
                   loaded_plugins, loaded_unfinished, must_cancel, new_plugin,
                   exporter_plugins, forwarded, handed>>
    /\ UNCHANGED outside_publish

\* "git clone" exits: "await process.wait()" of _import_git_repository can go on
CloneExits(s) ==
    /\ producer_pc[s] = "clone"
    /\ producer_pc' = [producer_pc EXCEPT ![s] = "cloned"]
    /\ ready' = Append(ready, ProducerTask(s))
    /\ UNCHANGED <<main_pc, nfinished, jobs, jobs_unfinished, jobs_getters, worker_pc,
                   worker_plugin, loaded_plugins, loaded_unfinished, exporter_pc,
                   must_cancel, new_plugin, exporter_plugins, forwarded, handed>>
    /\ UNCHANGED <<repo_vars, outside_publish>>

\* the candidates of a source, as the walk of get_plugins yields them
CandidatesOf(s) == [i \in 1..Len(tree[s]) |-> <<s, i>>]

\* Queue.put, once per item: _wakeup_next lets the first waiting getter go on
Woken(getters, count) ==
    SubSeq(getters, 1, IF count < Len(getters) THEN count ELSE Len(getters))

StillWaiting(getters, count) ==
    SubSeq(getters, Len(Woken(getters, count)) + 1, Len(getters))

\* import_plugin_source_archive after the clone: if it failed, initialize raises
\* and the producer logs it; if not, the repository is downloaded and every
\* candidate of the walk is put on the pending queue.  The task ends, and the
\* done callback of gather is to run.
ProducerRuns(s) ==
    /\ Running(ProducerTask(s))
    /\ producer_pc[s] = "cloned"
    /\ LET puts == IF clone_ok[s] THEN CandidatesOf(s) ELSE <<>>
           woken == Woken(jobs_getters, Len(puts))
       IN  /\ jobs' = jobs \o puts
           /\ jobs_unfinished' = jobs_unfinished + Len(puts)
           /\ jobs_getters' = StillWaiting(jobs_getters, Len(puts))
           /\ worker_pc' = [w \in Workers |->
                               IF \E i \in 1..Len(woken) : woken[i] = w
                               THEN "at_get" ELSE worker_pc[w]]
           /\ ready' = Tail(ready) \o [i \in 1..Len(woken) |-> WorkerTask(woken[i])]
                                   \o <<GatherCallback(s)>>
    /\ producer_pc' = [producer_pc EXCEPT ![s] = "done"]
    /\ is_downloaded' = [is_downloaded EXCEPT ![s] = clone_ok[s]]
    /\ plugins_directory' = [plugins_directory EXCEPT
                                ![s] = IF clone_ok[s] THEN Workspace(s) ELSE @]
    /\ repo_exc' = [repo_exc EXCEPT
                       ![s] = IF clone_ok[s] THEN NoException ELSE AcquisitionError]
    /\ UNCHANGED <<extract_directory, mkdtemp_count, disk, rmtree_log, last_call,
                   repo_calls>>
    /\ UNCHANGED <<main_pc, nfinished, worker_plugin, loaded_plugins, loaded_unfinished,
                   exporter_pc, must_cancel, new_plugin, exporter_plugins, forwarded,
                   handed>>
    /\ UNCHANGED outside_publish

\* asyncio.gather: the done callback of a producer task; after the last one
\* the gather is done and import_plugins can go on
GatherCallbackRuns(s) ==
    /\ Running(GatherCallback(s))
    /\ nfinished' = nfinished + 1
    /\ IF nfinished + 1 = NumSources
       THEN /\ main_pc' = "gathered"
            /\ ready' = Append(Tail(ready), MainTask)
       ELSE /\ ready' = Tail(ready)
            /\ UNCHANGED main_pc
    /\ UNCHANGED <<producer_pc, jobs, jobs_unfinished, jobs_getters, worker_pc,
                   worker_plugin, loaded_plugins, loaded_unfinished, exporter_pc,
                   must_cancel, new_plugin, exporter_plugins, forwarded, handed>>
    /\ UNCHANGED <<repo_vars, outside_publish>>

\* the whole of "await plugin.initialize()" on a candidate
InitializeOf(id) ==
    initialize(MuninPlugin(id, <<SourceName(id[1])>>, None), FileOf(id))

\* initialize up to its first await: an OSError of open(), perldoc started for a
\* text with documentation, "git log" started for one without
FirstAwait(id) ==
    LET p == MuninPlugin(id, <<SourceName(id[1])>>, None)
        f == FileOf(id)
    IN  IF ~InitializeGuard(p) THEN "returned"
        ELSE IF ~f.readable THEN "OSError"
        ELSE IF NeedsPerldoc(ReadPluginCode(p, f)) /\ f.perldoc # "spawn_error"
        THEN "perldoc"
        ELSE "gitlog"

\* what a step of a worker task leaves alone
PublishWorkerFrame ==
    /\ UNCHANGED <<producer_pc, nfinished, must_cancel, new_plugin, exporter_plugins,
                   handed>>
    /\ UNCHANGED <<repo_vars, outside_publish>>

\* a worker step that ends in the await of an external process
WorkerSuspends(w, pc) ==
    /\ worker_pc' = [worker_pc EXCEPT ![w] = pc]
    /\ ready' = Tail(ready)
    /\ UNCHANGED <<main_pc, jobs_unfinished, jobs_getters, loaded_plugins,
                   loaded_unfinished, exporter_pc, forwarded>>

\* The end of a turn of the worker's loop, initialize having returned or raised
\* exc, with remaining the pending queue as the turn leaves it.  The "else":
\* the put on the results queue lets the consumer go on if it waits in get.
\* The "finally": the last task_done lets import_plugins go on if it waits in
\* join.  Then "await jobs.get()": with a plugin pending the worker goes on
\* with it, with none it waits.
EndTurn(w, id, exc, remaining) ==
    LET put == WorkerForwards(exc)
        unfinished == jobs_unfinished - TaskDoneCount(exc)
        consumer_goes_on == put /\ exporter_pc = "get"
        join_returns == main_pc = "join" /\ JoinReturns(remaining, unfinished)
    IN  /\ loaded_plugins' = IF put THEN Append(loaded_plugins, id) ELSE loaded_plugins
        /\ loaded_unfinished' = IF put THEN loaded_unfinished + 1 ELSE loaded_unfinished
        /\ forwarded' = IF put THEN Append(forwarded, id) ELSE forwarded
        /\ jobs_unfinished' = unfinished
        /\ exporter_pc' = IF consumer_goes_on THEN "at_get" ELSE exporter_pc
        /\ main_pc' = IF join_returns THEN "joined" ELSE main_pc
        /\ worker_pc' = [worker_pc EXCEPT
                            ![w] = IF remaining # <<>> THEN "at_get" ELSE "get"]
        /\ jobs_getters' = IF remaining # <<>> THEN jobs_getters
                           ELSE Append(jobs_getters, w)
        /\ ready' = (IF remaining # <<>> THEN ready ELSE Tail(ready))
                    \o (IF consumer_goes_on THEN <<ExporterTask>> ELSE <<>>)
                    \o (IF join_returns THEN <<MainTask>> ELSE <<>>)

\* worker_initialize_plugins at "plugin = await jobs.get()": with the queue
\* empty (another worker took the plugin this one was woken for) it waits
\* again; if not, it takes the next plugin and runs initialize to its first
\* await, or through the whole turn if initialize awaits nothing
WorkerGets(w) ==
    /\ Running(WorkerTask(w))
    /\ worker_pc[w] = "at_get"
    /\ IF jobs = <<>>
       THEN /\ worker_pc' = [worker_pc EXCEPT ![w] = "get"]
            /\ jobs_getters' = Append(jobs_getters, w)
            /\ ready' = Tail(ready)
            /\ UNCHANGED <<main_pc, jobs, jobs_unfinished, worker_plugin, loaded_plugins,
                           loaded_unfinished, exporter_pc, forwarded>>
       ELSE LET id == Head(jobs)
                first == FirstAwait(id)
            IN  /\ jobs' = Tail(jobs)
                /\ worker_plugin' = [worker_plugin EXCEPT ![PluginSlot(w)] = id]
                /\ IF first \in {"perldoc", "gitlog"}
                   THEN WorkerSuspends(w, first)
                   ELSE EndTurn(w, id, IF first = "returned" THEN NoException ELSE first,
                                Tail(jobs))
    /\ PublishWorkerFrame

\* perldoc or "git log" exits: the worker that waits for it can go on
ProcessExits(w) ==
    /\ \/ worker_pc[w] = "perldoc" /\ PerldocExits(FileOf(worker_plugin[PluginSlot(w)]))
       \/ worker_pc[w] = "gitlog"
    /\ worker_pc' = [worker_pc EXCEPT ![w] = IF @ = "perldoc" THEN "perldoc_exited"
                                              ELSE "gitlog_exited"]
    /\ ready' = Append(ready, WorkerTask(w))
    /\ UNCHANGED <<main_pc, producer_pc, nfinished, jobs, jobs_unfinished, jobs_getters,
                   worker_plugin, loaded_plugins, loaded_unfinished, exporter_pc,
                   must_cancel, new_plugin, exporter_plugins, forwarded, handed>>
    /\ UNCHANGED <<repo_vars, outside_publish>>

\* the worker goes on in initialize: after perldoc to "git log", unless the
\* output cannot be decoded; after "git log" to the end of the turn
WorkerResumes(w) ==
    /\ Running(WorkerTask(w))
    /\ worker_pc[w] \in {"perldoc_exited", "gitlog_exited"}
    /\ LET id == worker_plugin[PluginSlot(w)]
           r == PerldocResult(FileOf(id))
       IN  IF worker_pc[w] = "perldoc_exited"
           THEN IF r.exc # NoException
                THEN EndTurn(w, id, r.exc, jobs)
                ELSE WorkerSuspends(w, "gitlog")
           ELSE EndTurn(w, id, InitializeOf(id).exc, jobs)
    /\ UNCHANGED <<jobs, worker_plugin>>
    /\ PublishWorkerFrame

\* MuninPluginsHugoExport.add: the plugin is appended to _plugins unless the
\* directory cannot be made (add returns False) or a file cannot be copied (add
\* raises, which the consumer logs); a file of a workspace that is gone cannot
\* be copied
AddOutcomes(id) ==
    IF Workspace(id[1]) \in disk THEN {"added", "makedirs_failed", "copy_failed"}
    ELSE {"makedirs_failed", "copy_failed"}

\* worker_export_plugins_to_hugo at "new_plugin = await input_queue.get()": a
\* cancellation is raised there and ends the task; with the queue empty the
\* task waits; if not, it takes the next plugin, hands it to add, calls
\* task_done and is at get again
ExporterRuns ==
    /\ Running(ExporterTask)
    /\ exporter_pc = "at_get"
    /\ IF must_cancel
       THEN /\ exporter_pc' = "cancelled"
            /\ must_cancel' = FALSE
            /\ new_plugin' = NoPlugin
            /\ ready' = Tail(ready)
            /\ UNCHANGED <<loaded_plugins, loaded_unfinished, exporter_plugins, handed>>
       ELSE IF loaded_plugins = <<>>
       THEN /\ exporter_pc' = "get"
            /\ ready' = Tail(ready)
            /\ UNCHANGED <<must_cancel, new_plugin, loaded_plugins, loaded_unfinished,
                           exporter_plugins, handed>>
       ELSE LET id == Head(loaded_plugins)
            IN  /\ new_plugin' = id
                /\ loaded_plugins' = Tail(loaded_plugins)
                /\ handed' = Append(handed, id)
                /\ \E outcome \in AddOutcomes(id) :
                       exporter_plugins' = IF outcome = "added"
                                           THEN Append(exporter_plugins, id)
                                           ELSE exporter_plugins
                /\ loaded_unfinished' = loaded_unfinished - 1
                /\ UNCHANGED <<exporter_pc, must_cancel, ready>>
    /\ UNCHANGED <<main_pc, producer_pc, nfinished, jobs, jobs_unfinished, jobs_getters,
                   worker_pc, worker_plugin, forwarded>>
    /\ UNCHANGED <<repo_vars, outside_publish>>

\* import_plugins returns and publish_plugins_hugo goes on: "worker.cancel()",
\* then export.build() starts hugo and waits for it.  Task.cancel: a task that
\* waits is given the cancellation in a step of its own; a task whose step is
\* ready already is given it in that step.
ReturnAndCancel ==
    /\ main_pc' = "build"
    /\ must_cancel' = (exporter_pc \in {"get", "at_get"})
    /\ exporter_pc' = IF exporter_pc = "get" THEN "at_get" ELSE exporter_pc
    /\ ready' = Tail(ready) \o (IF exporter_pc = "get" THEN <<ExporterTask>> ELSE <<>>)
    /\ UNCHANGED <<worker_pc, worker_plugin, jobs_getters, loaded_plugins,
                   exporter_plugins, new_plugin>>

\* publish_plugins_hugo returns and asyncio.run cancels the tasks that are
\* left, the workers, and closes the loop: the queues, the exporter and the
\* frames of the tasks are released
ReturnAndClose ==
    /\ main_pc' = "returned"
    /\ worker_pc' = [w \in Workers |-> IF worker_pc[w] = "new" THEN "new" ELSE "cancelled"]
    /\ worker_plugin' = [w \in Workers |-> NoPlugin]
    /\ jobs_getters' = <<>>
    /\ loaded_plugins' = <<>>
    /\ exporter_plugins' = <<>>
    /\ new_plugin' = NoPlugin
    /\ ready' = Tail(ready)
    /\ UNCHANGED <<must_cancel, exporter_pc>>

\* the task of publish_plugins_hugo goes on: after the gather to
\* "await pending_plugins.join()", which waits if a plugin is unfinished; after
\* the join, or without waiting, to the cancellation; after hugo to the end
MainRuns ==
    /\ Running(MainTask)
    /\ main_pc \in {"gathered", "joined", "built"}
    /\ IF main_pc = "built" THEN ReturnAndClose
       ELSE IF main_pc = "joined" \/ JoinReturns(jobs, jobs_unfinished)
       THEN ReturnAndCancel
       ELSE /\ main_pc' = "join"
            /\ ready' = Tail(ready)
            /\ UNCHANGED <<must_cancel, exporter_pc, worker_pc, worker_plugin,
                           jobs_getters, loaded_plugins, exporter_plugins, new_plugin>>
    /\ UNCHANGED <<producer_pc, nfinished, jobs, jobs_unfinished, loaded_unfinished,
                   forwarded, handed>>
    /\ UNCHANGED <<repo_vars, outside_publish>>

\* hugo exits: "await process.wait()" of build can go on
HugoExits ==
    /\ main_pc = "build"
    /\ main_pc' = "built"
    /\ ready' = Append(ready, MainTask)
    /\ UNCHANGED <<producer_pc, nfinished, jobs, jobs_unfinished, jobs_getters,
                   worker_pc, worker_plugin, loaded_plugins, loaded_unfinished,
                   exporter_pc, must_cancel, new_plugin, exporter_plugins, forwarded,
                   handed>>
    /\ UNCHANGED <<repo_vars, outside_publish>>

\* MuninPlugin.__init__: "self.repository_source = repository_source"
RepositorySource_not_kept(id) == 0

RepositorySource(id) == id[1]

\* the plugin objects something refers to: the queues, the local variables of
\* the workers and of the consumer, the exporter's list
LivePlugins ==
    (Range(jobs) \cup {worker_plugin[w] : w \in Workers} \cup Range(loaded_plugins)
       \cup {new_plugin} \cup Range(exporter_plugins)) \ {NoPlugin}

\* whether anything refers to a repository object: the list plugin_sources and
\* the producer tasks of import_plugins while it runs, and every plugin of the
\* repository that is alive
Referenced(s) ==
    \/ main_pc \in {"gather", "gathered", "join", "joined"}
    \/ \E id \in LivePlugins : RepositorySource(id) = s

\* the interpreter calls __del__ of a repository object once nothing refers to it
Purge(s) ==
    /\ main_pc # "start"
    /\ last_call[s] # "__del__"
    /\ ~Referenced(s)
    /\ RepositoryDel(s)

PublishNext ==
    \/ PublishStart
    \/ \E s \in Sources : CloneExits(s)
    \/ \E s \in Sources : ProducerRuns(s)
    \/ \E s \in Sources : GatherCallbackRuns(s)
    \/ \E w \in Workers : WorkerGets(w)
    \/ \E w \in Workers : ProcessExits(w)
    \/ \E w \in Workers : WorkerResumes(w)
    \/ ExporterRuns
    \/ MainRuns
    \/ HugoExits
    \/ \E s \in Sources : Purge(s)

PublishSpec == PublishInit /\ [][PublishNext]_vars

\* ------------------------------------------------------------ claim C16
\* the consumer task has been cancelled by "worker.cancel()"
Cancelled == main_pc \in {"build", "built"}

\* C16: when the consumer task is cancelled the results queue is empty and
\* every plugin that was put on it has been handed to the sink's add; so, add
\* not having failed, the sink holds as many plugins as were extracted.
C16_DrainedBeforeCancel ==
    Cancelled =>
        /\ loaded_plugins = <<>>
        /\ handed = forwarded
        /\ Len(exporter_plugins) = Len(handed) => Len(exporter_plugins) = Len(forwarded)

\* ------------------------------------------------------------ claim C17
\* the workspace directory of a repository has been removed by its __del__
Purged(s) == last_call[s] = "__del__" /\ Workspace(s) \notin disk

\* the plugins a worker is extracting
InExtraction ==
    {worker_plugin[PluginSlot(w)] :
        w \in {v \in Workers : worker_pc[v] \in {"perldoc", "perldoc_exited",
                                                 "gitlog", "gitlog_exited"}}}

\* the plugins of a repository that are pending, in extraction or on the
\* results queue (add runs within one step of the consumer)
InUse(s) ==
    {id \in Range(jobs) \cup InExtraction \cup Range(loaded_plugins) :
        id[1] = s}

\* C17: the workspace directory of a repository is never purged while a plugin
\* of it is pending, in extraction, on the results queue or being exported: no
\* such plugin is left when it has been purged.
C17_NoPurgeWhileInUse == \A s \in Sources : Purged(s) => InUse(s) = {}

\* C17 witness: the workspace of a repository has been purged, two plugins of
\* it having gone through extraction to the exporter
C17_Witness ==
    \E s \in Sources :
        /\ Purged(s)
        /\ Len(handed) = MaxPlugins
        /\ \A i \in 1..Len(handed) : handed[i][1] = s

=============================================================================
